---- MODULE Spec2Model ----
(***************************************************************************)
(* GraphQL Cascade, reference server (Python): the per-mutation entity     *)
(* tracker (tracker.py), the response builder (builder.py), the            *)
(* invalidation planner (invalidator.py) and the middleware adapter        *)
(* (middleware.py).                                                        *)
(*                                                                         *)
(* Entities are objects of a small heap.  Each object has a typename, an   *)
(* id and the list that _get_related_entities returns for it.  Two         *)
(* objects may carry the same cascade key (two snapshots of one entity).   *)
(* Wall-clock readings (timestamps, tracking_time, construction_time) are  *)
(* left out: no modelled branch depends on them.                           *)
(***************************************************************************)
EXTENDS Integers, Sequences, FiniteSets, TLC

VARIABLES
    heap,                           \* object -> list of related objects
    max_depth,                      \* CascadeTracker.max_depth
    exclude_types,                  \* CascadeTracker.exclude_types
    enable_relationship_tracking,   \* CascadeTracker.enable_relationship_tracking
    in_transaction,                 \* CascadeTracker.in_transaction
    transaction_id,                 \* CascadeTracker.transaction_id (0 = None)
    updated_entities,               \* insertion-ordered dict: key -> EntityChange
    deleted_entities,               \* set of keys
    visited_entities,               \* set of keys
    current_depth,                  \* CascadeTracker.current_depth
    stack,                          \* frames of _traverse_relationships in flight
    call,                           \* the tracking call in flight, or the last one
                                    \* issued since the transaction started
    ncalls,                         \* tracking calls issued so far
    ntx,                            \* start_transaction calls that succeeded so far
    scope,                          \* inside a "with CascadeTransaction(tracker)" block
    ret,                            \* what the last operation returned or raised
    mw,                             \* the intercept_mutation call of the middleware
    arg,                            \* the arguments of the helper function under call
    revision,                       \* object -> how often its field values were rewritten
    shape                           \* object -> what the object exposes

vars == <<heap, max_depth, exclude_types, enable_relationship_tracking,
          in_transaction, transaction_id, updated_entities, deleted_entities,
          visited_entities, current_depth, stack, call, ncalls, ntx, scope, ret, mw,
          arg, revision, shape>>

\* what no operation of the tracker or the builder changes
config_vars == <<heap, max_depth, exclude_types, enable_relationship_tracking, mw,
                 arg, revision, shape>>

log_vars == <<updated_entities, deleted_entities, visited_entities>>

(***************************************************************************)
(* Bounds of the model.                                                    *)
(***************************************************************************)
MaxCalls == 2

MaxTx == 2

MaxDepthBound == 2

\* how far around the thresholds of _apply_size_limits the list lengths of
\* its direct calls reach
Margin == 1

\* the longest hint list handed to the helpers of the planner
MaxHints == 3

\* how often the resolver rewrites the fields of one object
MaxWrites == 1

(***************************************************************************)
(* The heap of entity objects.                                             *)
(***************************************************************************)
Objects == {"a1", "a1v2", "b1", "c1", "log7"}

TypeOf(o) ==
    CASE o = "a1"   -> "A"
      [] o = "a1v2" -> "A"
      [] o = "b1"   -> "B"
      [] o = "c1"   -> "C"
      [] o = "log7" -> "AuditLog"

IdOf(o) ==
    CASE o = "a1"   -> "1"
      [] o = "a1v2" -> "1"
      [] o = "b1"   -> "1"
      [] o = "c1"   -> "1"
      [] o = "log7" -> "7"

\* key = (typename, entity_id)
KeyOf(o) == <<TypeOf(o), IdOf(o)>>

Keys == {KeyOf(o) : o \in Objects}

NoRel == [o \in Objects |-> <<>>]

\* The entity graphs the resolver may hand to the tracker.
Heaps ==
    { NoRel,
      \* two-node cycle  A#1 -> B#1 -> A#1
      [NoRel EXCEPT !["a1"] = <<"b1">>, !["b1"] = <<"a1">>, !["a1v2"] = <<"b1">>],
      \* C#1 is reachable from A#1 both in one hop and in two hops
      [NoRel EXCEPT !["a1"] = <<"b1", "c1">>, !["b1"] = <<"c1">>,
                    !["c1"] = <<"log7">>, !["a1v2"] = <<"c1">>],
      \* a chain closed into a cycle, with a self loop
      [NoRel EXCEPT !["a1"] = <<"b1">>, !["b1"] = <<"b1", "c1">>,
                    !["c1"] = <<"log7">>, !["log7"] = <<"a1v2">>],
      \* an audit-log entity between the root and another entity
      [NoRel EXCEPT !["a1"] = <<"log7", "b1">>, !["log7"] = <<"c1">>,
                    !["b1"] = <<"a1v2">>] }

ExcludeChoices == {{}, {"AuditLog"}}

\* field values as the objects are constructed with
NoWrites == [o \in Objects |-> 0]

\* every object has an id and a to_dict method
PlainEntities == [o \in Objects |-> "entity"]

\* what the objects handed to the tracker expose: all are plain entities;
\* C#1 has no id attribute; B#1 has an id but neither to_dict nor __dict__
\* (a class with __slots__)
Shapes ==
    { PlainEntities,
      [PlainEntities EXCEPT !["c1"] = "no_id"],
      [PlainEntities EXCEPT !["b1"] = "slots"] }

\* the depth of a tracker built with custom settings
CustomDepth == 5

\* CascadeTracker(max_depth, exclude_types, enable_relationship_tracking):
\* every depth with relationship tracking on, and tracking switched off
TrackerConfigs ==
    {[max_depth |-> d, enable_relationship_tracking |-> TRUE] : d \in 0..MaxDepthBound}
        \cup {[max_depth |-> MaxDepthBound, enable_relationship_tracking |-> FALSE],
              [max_depth |-> CustomDepth, enable_relationship_tracking |-> TRUE]}

(***************************************************************************)
(* Insertion-ordered dict (updated_entities) as a sequence of entries.     *)
(***************************************************************************)
DictKeys(d) == {d[i].key : i \in DOMAIN d}

\* d[key] = change on a mapping that puts a new key first
DictSetFirst(d, key, change) ==
    IF key \in DictKeys(d)
    THEN [i \in DOMAIN d |-> IF d[i].key = key THEN change ELSE d[i]]
    ELSE <<change>> \o d

\* an assignment that stores nothing
DictSetNothing(d, key, change) == d

\* d[key] = change : an existing key keeps its position, a new key goes last
DictSet(d, key, change) ==
    IF key \in DictKeys(d)
    THEN [i \in DOMAIN d |-> IF d[i].key = key THEN change ELSE d[i]]
    ELSE Append(d, change)

\* a pop that removes nothing
DictPopNothing(d, key) == d

\* d.pop(key, None)
DictPop(d, key) == SelectSeq(d, LAMBDA c : c.key # key)

DictGet(d, key) == d[CHOOSE i \in DOMAIN d : d[i].key = key]

EntityChange(key, entity, operation) ==
    [key |-> key, entity |-> entity, operation |-> operation]

NoCall == [op |-> "none", entity |-> "none", key |-> <<>>]

NoRet == [kind |-> "none"]

RuntimeError == [kind |-> "raised", exc |-> "RuntimeError"]

ValueError == [kind |-> "raised", exc |-> "ValueError"]

\* no intercept_mutation call is modelled
NoMw == [pc |-> "none"]

\* no helper function is under call
NoArg == [fn |-> "none"]

(***************************************************************************)
(* CascadeTracker                                                          *)
(***************************************************************************)
Init ==
    /\ heap \in Heaps
    /\ \E c \in TrackerConfigs :
          /\ max_depth = c.max_depth
          /\ enable_relationship_tracking = c.enable_relationship_tracking
    /\ exclude_types \in ExcludeChoices
    /\ in_transaction = FALSE
    /\ transaction_id = 0
    /\ updated_entities = <<>>
    /\ deleted_entities = {}
    /\ visited_entities = {}
    /\ current_depth = 0
    /\ stack = <<>>
    /\ call = NoCall
    /\ ncalls = 0
    /\ ntx = 0
    /\ scope = FALSE
    /\ ret = NoRet
    /\ mw = NoMw
    /\ arg = NoArg
    /\ revision = NoWrites
    /\ shape = PlainEntities

Idle == stack = <<>>

\* start_transaction without its test of in_transaction
DoStartTransactionUnguarded ==
    /\ in_transaction' = TRUE
    /\ ntx' = ntx + 1
    /\ transaction_id' = ntx + 1
    /\ updated_entities' = <<>>
    /\ deleted_entities' = {}
    /\ visited_entities' = {}
    /\ current_depth' = 0
    /\ call' = NoCall
    /\ ret' = [kind |-> "transaction_id", id |-> ntx + 1]

\* start_transaction without its reset of the change log
DoStartTransactionKeepsLog ==
    IF in_transaction
    THEN /\ ret' = RuntimeError
         /\ UNCHANGED <<in_transaction, transaction_id, log_vars, current_depth,
                        ntx, call>>
    ELSE /\ in_transaction' = TRUE
         /\ ntx' = ntx + 1
         /\ transaction_id' = ntx + 1
         /\ call' = NoCall
         /\ ret' = [kind |-> "transaction_id", id |-> ntx + 1]
         /\ UNCHANGED <<log_vars, current_depth>>

\* start_transaction: the effect on the tracker
DoStartTransaction ==
    IF in_transaction
    THEN /\ ret' = RuntimeError
         /\ UNCHANGED <<in_transaction, transaction_id, log_vars, current_depth,
                        ntx, call>>
    ELSE /\ in_transaction' = TRUE
         /\ ntx' = ntx + 1
         /\ transaction_id' = ntx + 1
         /\ updated_entities' = <<>>
         /\ deleted_entities' = {}
         /\ visited_entities' = {}
         /\ current_depth' = 0
         /\ call' = NoCall
         /\ ret' = [kind |-> "transaction_id", id |-> ntx + 1]

\* tracker.start_transaction() called directly
StartTransaction ==
    /\ Idle
    /\ ntx < MaxTx
    /\ DoStartTransaction
    /\ UNCHANGED <<config_vars, stack, ncalls, scope>>

\* CascadeTransaction.__enter__
EnterScope ==
    /\ Idle
    /\ ~scope
    /\ ntx < MaxTx
    /\ DoStartTransaction
    /\ scope' = ~in_transaction
    /\ UNCHANGED <<config_vars, stack, ncalls>>

\* _reset_transaction_state
ResetTransactionState ==
    /\ in_transaction' = FALSE
    /\ transaction_id' = 0
    /\ updated_entities' = <<>>
    /\ deleted_entities' = {}
    /\ visited_entities' = {}
    /\ current_depth' = 0

\* CascadeTransaction.__exit__(None, None, None)
ExitScopeNormal ==
    /\ Idle
    /\ scope
    /\ scope' = FALSE
    /\ in_transaction' = FALSE
    /\ transaction_id' = 0
    /\ ret' = NoRet
    /\ UNCHANGED <<config_vars, log_vars, current_depth, stack, call, ncalls, ntx>>

\* __exit__ taking its normal branch although an exception escapes
ExitScopeExceptionKeepsData ==
    /\ Idle
    /\ scope
    /\ scope' = FALSE
    /\ in_transaction' = FALSE
    /\ transaction_id' = 0
    /\ ret' = [kind |-> "raised", exc |-> "Exception"]
    /\ UNCHANGED <<config_vars, log_vars, current_depth, stack, call, ncalls, ntx>>

\* CascadeTransaction.__exit__(exc_type, exc_val, exc_tb) with an exception
ExitScopeException ==
    /\ Idle
    /\ scope
    /\ scope' = FALSE
    /\ ResetTransactionState
    /\ ret' = [kind |-> "raised", exc |-> "Exception"]
    /\ UNCHANGED <<config_vars, stack, call, ncalls, ntx>>

\* the exclusion test left out
IsExcludedNever(typename) == FALSE

\* typename in self.exclude_types
IsExcluded(typename) == typename \in exclude_types

\* the visited test left out
AlreadyVisitedNever(key) == FALSE

\* key in self.visited_entities
AlreadyVisited(key) == key \in visited_entities

\* the depth test off by one
ShouldTraverseOffByOne == enable_relationship_tracking /\ current_depth <= max_depth

\* self.enable_relationship_tracking and self.current_depth < self.max_depth
ShouldTraverse == enable_relationship_tracking /\ current_depth < max_depth

\* _get_related_entities
GetRelatedEntities(entity) == heap[entity]

\* an id test that every object passes
ExposesIdAlways(entity) == TRUE

\* hasattr(entity, "id") in _get_entity_id
ExposesId(entity) == shape[entity] # "no_id"

\* _track_entity up to the point where it returns or enters
\* _traverse_relationships; stk is the stack of frames of the callers.
\* A frame holds the related entities still to be tracked.
TrackEntity(entity, operation, stk) ==
    LET key == KeyOf(entity) IN
    IF IsExcluded(TypeOf(entity)) \/ AlreadyVisited(key)
    THEN /\ stack' = stk
         /\ UNCHANGED <<visited_entities, updated_entities, current_depth>>
    ELSE /\ visited_entities' = visited_entities \cup {key}
         /\ updated_entities' =
                DictSet(updated_entities, key, EntityChange(key, entity, operation))
         /\ IF ShouldTraverse
            THEN /\ current_depth' = current_depth + 1
                 /\ stack' = Append(stk, GetRelatedEntities(entity))
            ELSE /\ current_depth' = current_depth
                 /\ stack' = stk

\* _ensure_transaction fails
TrackOutsideTransaction ==
    /\ Idle
    /\ ~in_transaction
    /\ ncalls < MaxCalls
    /\ ncalls' = ncalls + 1
    /\ \E op \in {"CREATED", "UPDATED", "DELETED"} :
          \* the arguments are not looked at before the failure
          call' = [op |-> op, entity |-> IF op = "DELETED" THEN "none" ELSE "a1",
                   key |-> KeyOf("a1")]
    /\ ret' = RuntimeError
    /\ UNCHANGED <<config_vars, in_transaction, transaction_id, log_vars,
                   current_depth, stack, ntx, scope>>

\* track_create(entity)
TrackCreate(entity) ==
    /\ Idle
    /\ in_transaction
    /\ ncalls < MaxCalls
    /\ ncalls' = ncalls + 1
    /\ call' = [op |-> "CREATED", entity |-> entity, key |-> KeyOf(entity)]
    /\ IF ExposesId(entity)
       THEN /\ TrackEntity(entity, "CREATED", stack)
            /\ ret' = NoRet
       ELSE \* _get_entity_id raises before anything is recorded
            /\ ret' = ValueError
            /\ UNCHANGED <<visited_entities, updated_entities, current_depth, stack>>
    /\ UNCHANGED <<config_vars, in_transaction, transaction_id, deleted_entities, ntx, scope>>

\* track_update(entity)
TrackUpdate(entity) ==
    /\ Idle
    /\ in_transaction
    /\ ncalls < MaxCalls
    /\ ncalls' = ncalls + 1
    /\ call' = [op |-> "UPDATED", entity |-> entity, key |-> KeyOf(entity)]
    /\ IF ExposesId(entity)
       THEN /\ TrackEntity(entity, "UPDATED", stack)
            /\ ret' = NoRet
       ELSE /\ ret' = ValueError
            /\ UNCHANGED <<visited_entities, updated_entities, current_depth, stack>>
    /\ UNCHANGED <<config_vars, in_transaction, transaction_id, deleted_entities, ntx, scope>>

\* track_delete(typename, entity_id)
TrackDelete(key) ==
    /\ Idle
    /\ in_transaction
    /\ ncalls < MaxCalls
    /\ ncalls' = ncalls + 1
    /\ call' = [op |-> "DELETED", entity |-> "none", key |-> key]
    /\ deleted_entities' = deleted_entities \cup {key}
    /\ updated_entities' = DictPop(updated_entities, key)
    /\ ret' = NoRet
    /\ UNCHANGED <<config_vars, in_transaction, transaction_id, visited_entities,
                   current_depth, stack, ntx, scope>>

\* _traverse_relationships, one iteration of the for loop: the next related
\* entity of the innermost frame is tracked as UPDATED. When it has no id the
\* ValueError of _get_entity_id leaves every frame in flight, and the
\* finally clause of each takes its 1 off current_depth.
WalkNext ==
    /\ stack # <<>>
    /\ stack[Len(stack)] # <<>>
    /\ LET top  == stack[Len(stack)]
           rest == [stack EXCEPT ![Len(stack)] = Tail(top)]
       IN IF ExposesId(Head(top))
          THEN /\ TrackEntity(Head(top), "UPDATED", rest)
               /\ ret' = ret
          ELSE /\ stack' = <<>>
               /\ current_depth' = current_depth - Len(stack)
               /\ ret' = ValueError
               /\ UNCHANGED <<visited_entities, updated_entities>>
    /\ UNCHANGED <<config_vars, in_transaction, transaction_id, deleted_entities,
                   call, ncalls, ntx, scope>>

\* _traverse_relationships, the loop is over: finally current_depth -= 1
WalkReturn ==
    /\ stack # <<>>
    /\ stack[Len(stack)] = <<>>
    /\ stack' = SubSeq(stack, 1, Len(stack) - 1)
    /\ current_depth' = current_depth - 1
    /\ UNCHANGED <<config_vars, in_transaction, transaction_id, log_vars,
                   call, ncalls, ntx, scope, ret>>

\* the orders in which iterating a Python set may yield its elements
Orders(S) ==
    {f \in [1..Cardinality(S) -> S] :
        \A i, j \in 1..Cardinality(S) : i # j => f[i] # f[j]}

\* _entity_to_dict of an entity with to_dict(): its id and the field values
\* the object holds when it is called
EntityToDict(entity) == [id |-> IdOf(entity), name |-> entity, rev |-> revision[entity]]

\* _entity_to_dict returns: the object has to_dict or __dict__
CanSerialize(entity) == shape[entity] # "slots"

\* _build_updated_entities: a change whose entity cannot be serialized is
\* skipped
BuildUpdatedEntities ==
    LET serialized == SelectSeq(updated_entities, LAMBDA c : CanSerialize(c.entity))
    IN [i \in DOMAIN serialized |->
           [typename  |-> serialized[i].key[1],
            id        |-> serialized[i].key[2],
            operation |-> serialized[i].operation,
            entity    |-> EntityToDict(serialized[i].entity)]]

\* _build_deleted_entities; order is the iteration order of deleted_entities
BuildDeletedEntities(order) ==
    [i \in DOMAIN order |-> [typename |-> order[i][1], id |-> order[i][2]]]

\* the dict built by end_transaction and by get_cascade_data
CascadeData(order) ==
    [updated  |-> BuildUpdatedEntities,
     deleted  |-> BuildDeletedEntities(order),
     metadata |-> [transaction_id |-> transaction_id,
                   depth          |-> current_depth,
                   affected_count |-> Len(updated_entities)
                                        + Cardinality(deleted_entities)]]

\* not self.in_transaction and not self.updated_entities and not self.deleted_entities
NothingToEnd ==
    ~in_transaction /\ updated_entities = <<>> /\ deleted_entities = {}

\* end_transaction
EndTransaction ==
    /\ Idle
    /\ IF NothingToEnd
       THEN /\ ret' = RuntimeError
            /\ UNCHANGED <<in_transaction, transaction_id, log_vars, current_depth>>
       ELSE /\ \E order \in Orders(deleted_entities) :
                  ret' = [kind |-> "cascade_data", data |-> CascadeData(order)]
            /\ ResetTransactionState
    /\ UNCHANGED <<config_vars, stack, call, ncalls, ntx, scope>>

\* get_cascade_data
GetCascadeData ==
    /\ Idle
    /\ IF ~in_transaction
       THEN ret' = RuntimeError
       ELSE \E order \in Orders(deleted_entities) :
                ret' = [kind |-> "cascade_data", data |-> CascadeData(order)]
    /\ UNCHANGED <<config_vars, in_transaction, transaction_id, log_vars,
                   current_depth, stack, call, ncalls, ntx, scope>>

(***************************************************************************)
(* CascadeInvalidator                                                      *)
(***************************************************************************)
None == "None"

\* dict.get(k): the value of key k, or None
Get(d, k) == IF k \in DOMAIN d THEN d[k] ELSE None

\* the mutation's primary result: None, an entity object, or a truthy value
\* that has no id attribute (a number, a mapping)
PrimaryResults == {None, "a1", "scalar"}

\* hasattr(entity, "id"), as _get_entity_id tests it
HasId(value) == value \in Objects

\* the defaults of a type without the search hint
GetTypeInvalidationsNoSearch(entity_type) ==
    << [queryName |-> "list" \o entity_type \o "s",
        strategy |-> "INVALIDATE", scope |-> "PREFIX"],
       [queryName |-> "get" \o entity_type,
        strategy |-> "REFETCH", scope |-> "EXACT"] >>

\* _get_type_invalidations
GetTypeInvalidations(entity_type) ==
    << [queryName |-> "list" \o entity_type \o "s",
        strategy |-> "INVALIDATE", scope |-> "PREFIX"],
       [queryName |-> "get" \o entity_type,
        strategy |-> "REFETCH", scope |-> "EXACT"],
       [queryPattern |-> "search" \o entity_type \o "*",
        strategy |-> "INVALIDATE", scope |-> "PATTERN"] >>

\* the set affected_types of _compute_automatic_invalidations
AffectedTypes(updated, deleted) ==
    {updated[i].typename : i \in DOMAIN updated}
        \cup {deleted[i].typename : i \in DOMAIN deleted}

RECURSIVE FlattenTypes(_)
FlattenTypes(types) ==
    IF types = <<>> THEN <<>>
    ELSE GetTypeInvalidations(Head(types)) \o FlattenTypes(Tail(types))

\* _compute_automatic_invalidations; type_order is the order in which the
\* set affected_types is iterated
ComputeAutomaticInvalidations(type_order) == FlattenTypes(type_order)

\* a None in the place of an arguments mapping
NoArguments == [isNone |-> TRUE]

\* self.invalidation_rules.get(entity_type, {}).get(field_name, []):
\* _load_custom_rules parses nothing and returns an empty mapping
RulesFor(entity_type, field_name) == <<>>

\* _get_changed_fields: list(entity["entity"].keys())
GetChangedFields(entity) == <<"id", "name", "rev">>

\* the hints appended for the rules of one field
RuleHints(rules) ==
    [i \in DOMAIN rules |->
        [queryName |-> Get(rules[i], "query"),
         strategy  |-> IF "strategy" \in DOMAIN rules[i]
                       THEN rules[i].strategy ELSE "INVALIDATE",
         scope     |-> IF "scope" \in DOMAIN rules[i]
                       THEN rules[i].scope ELSE "PREFIX",
         arguments |-> IF "arguments" \in DOMAIN rules[i]
                       THEN rules[i].arguments ELSE NoArguments]]

RECURSIVE FieldHints(_, _)
FieldHints(entity_type, fields) ==
    IF fields = <<>> THEN <<>>
    ELSE RuleHints(RulesFor(entity_type, Head(fields)))
             \o FieldHints(entity_type, Tail(fields))

\* _compute_custom_invalidations
RECURSIVE ComputeCustomInvalidations(_, _)
ComputeCustomInvalidations(updated, deleted) ==
    IF updated = <<>> THEN <<>>
    ELSE FieldHints(Head(updated).typename, GetChangedFields(Head(updated)))
             \o ComputeCustomInvalidations(Tail(updated), deleted)

\* _compute_primary_invalidations: the hints, or the ValueError that
\* _get_entity_id raises and "except (AttributeError, KeyError)" lets through
ComputePrimaryInvalidations(primary_result) ==
    IF primary_result = None
    THEN [raised |-> FALSE, hints |-> <<>>]
    ELSE IF HasId(primary_result)
    THEN [raised |-> FALSE,
          hints |-> << [queryName |-> "get" \o TypeOf(primary_result),
                        arguments |-> [id |-> IdOf(primary_result)],
                        strategy  |-> "REFETCH",
                        scope     |-> "EXACT"] >>]
    ELSE [raised |-> TRUE, hints |-> <<>>]

\* json.dumps(arguments, sort_keys=True) if arguments else None
ArgumentsHash(inv) ==
    IF "arguments" \notin DOMAIN inv \/ inv.arguments = NoArguments
           \/ DOMAIN inv.arguments = {}
    THEN NoArguments
    ELSE [json |-> inv.arguments]

\* inv_hash
InvHash(inv) ==
    << Get(inv, "queryName"), Get(inv, "queryPattern"), Get(inv, "strategy"),
       Get(inv, "scope"), ArgumentsHash(inv) >>

\* deduplicate_invalidations, and the first loop of _optimize_invalidations
RECURSIVE DedupFrom(_, _, _)
DedupFrom(invalidations, seen, deduplicated) ==
    IF invalidations = <<>> THEN deduplicated
    ELSE LET inv == Head(invalidations) IN
         IF InvHash(inv) \in seen
         THEN DedupFrom(Tail(invalidations), seen, deduplicated)
         ELSE DedupFrom(Tail(invalidations), seen \cup {InvHash(inv)},
                        Append(deduplicated, inv))

DeduplicateInvalidations(invalidations) == DedupFrom(invalidations, {}, <<>>)

\* scope_priority.get(x.get("scope", "PREFIX"), 0)
ScopePriority(inv) ==
    LET scope_name == IF "scope" \in DOMAIN inv THEN inv.scope ELSE "PREFIX" IN
    CASE scope_name = "EXACT"   -> 4
      [] scope_name = "PREFIX"  -> 3
      [] scope_name = "PATTERN" -> 2
      [] scope_name = "ALL"     -> 1
      [] OTHER                  -> 0

\* the sort without reverse=True
PrioritizeInvalidationsAscending(invalidations) ==
    SelectSeq(invalidations, LAMBDA x : ScopePriority(x) = 0)
        \o SelectSeq(invalidations, LAMBDA x : ScopePriority(x) = 1)
        \o SelectSeq(invalidations, LAMBDA x : ScopePriority(x) = 2)
        \o SelectSeq(invalidations, LAMBDA x : ScopePriority(x) = 3)
        \o SelectSeq(invalidations, LAMBDA x : ScopePriority(x) = 4)

\* sorted(..., key=priority, reverse=True): a stable sort, so hints of one
\* priority keep their order
PrioritizeInvalidations(invalidations) ==
    SelectSeq(invalidations, LAMBDA x : ScopePriority(x) = 4)
        \o SelectSeq(invalidations, LAMBDA x : ScopePriority(x) = 3)
        \o SelectSeq(invalidations, LAMBDA x : ScopePriority(x) = 2)
        \o SelectSeq(invalidations, LAMBDA x : ScopePriority(x) = 1)
        \o SelectSeq(invalidations, LAMBDA x : ScopePriority(x) = 0)

\* seq[-n:], the cut taken from the wrong end
TakeLast(seq, n) ==
    SubSeq(seq, IF n < Len(seq) THEN Len(seq) - n + 1 ELSE 1, Len(seq))

\* seq[:n]
Take(seq, n) == SubSeq(seq, 1, IF n < Len(seq) THEN n ELSE Len(seq))

\* _optimize_invalidations; max_invalidations is the planner's own
\* config.get("max_invalidations", 50)
OptimizeInvalidations(invalidations, max_invalidations) ==
    Take(PrioritizeInvalidations(DeduplicateInvalidations(invalidations)),
         max_invalidations)

\* compute_invalidations
ComputeInvalidations(updated, deleted, primary_result, type_order, max_invalidations) ==
    LET primary == ComputePrimaryInvalidations(primary_result) IN
    IF primary.raised
    THEN [raised |-> TRUE, hints |-> <<>>]
    ELSE [raised |-> FALSE,
          hints |-> OptimizeInvalidations(
                        ComputeAutomaticInvalidations(type_order)
                            \o ComputeCustomInvalidations(updated, deleted)
                            \o primary.hints,
                        max_invalidations)]

(***************************************************************************)
(* CascadeBuilder                                                          *)
(***************************************************************************)
\* CascadeError(message, code, field=None)
CascadeError(message, code, field) ==
    [message |-> message, code |-> code, field |-> field]

\* CascadeError.to_dict: field is emitted only when set
ErrorToDict(error) ==
    IF error.field = None
    THEN [message |-> error.message, code |-> error.code]
    ELSE [message |-> error.message, code |-> error.code, field |-> error.field]

\* [error.to_dict() for error in errors]
ErrorsToDicts(errors) == [i \in DOMAIN errors |-> ErrorToDict(errors[i])]

NoInvalidator == [present |-> FALSE]

\* CascadeInvalidator(config={"max_invalidations": n})
Invalidator(n) == [present |-> TRUE, max_invalidations |-> n]

\* CascadeBuilder(tracker, invalidator, max_response_size_mb,
\* max_updated_entities, max_deleted_entities, max_invalidations);
\* max_response_size_mb is held in thousandths of a megabyte
Builder(invalidator, milli_mb, max_updated, max_deleted, max_inv) ==
    [invalidator            |-> invalidator,
     max_response_size_mmb  |-> milli_mb,
     max_updated_entities   |-> max_updated,
     max_deleted_entities   |-> max_deleted,
     max_invalidations      |-> max_inv]

\* CascadeBuilder(tracker): every setting at its default, no planner
DefaultBuilder == Builder(NoInvalidator, 5000, 500, 100, 50)

\* the builders the callers construct: the defaults without and with a
\* planner, a planner with a small cap, and a builder with small caps
Builders ==
    { Builder(NoInvalidator, 5000, 500, 100, 50),
      Builder(Invalidator(50), 5000, 500, 100, 50),
      Builder(Invalidator(2), 5000, 500, 100, 50),
      Builder(Invalidator(50), 1, 1, 1, 2) }

\* _estimate_response_size
EstimateResponseSize(updated, deleted, invalidations) ==
    (Len(updated) + Len(deleted)) * 1024 + Len(invalidations) * 512 + 1024

\* a size test that every response fails
ExceedsResponseSizeAlways(builder, response_size) == TRUE

\* response_size > self.max_response_size_mb * 1024 * 1024, both sides
\* multiplied by 125 (= 1000 / 8) to stay within integers
ExceedsResponseSize(builder, response_size) ==
    response_size * 125 > builder.max_response_size_mmb * 128 * 1024

\* metadata[flag] = True
SetFlag(metadata, cond, flag) ==
    IF cond THEN (flag :> TRUE) @@ metadata ELSE metadata

\* _apply_size_limits without its slices
ApplySizeLimitsNoSlice(builder, cascade_data) == cascade_data

\* _apply_size_limits
ApplySizeLimits(builder, cascade_data) ==
    LET cut_updated == Len(cascade_data.updated) > builder.max_updated_entities
        cut_deleted == Len(cascade_data.deleted) > builder.max_deleted_entities
        cut_invalidations ==
            Len(cascade_data.invalidations) > builder.max_invalidations
        updated == IF cut_updated
                   THEN Take(cascade_data.updated, builder.max_updated_entities)
                   ELSE cascade_data.updated
        deleted == IF cut_deleted
                   THEN Take(cascade_data.deleted, builder.max_deleted_entities)
                   ELSE cascade_data.deleted
        invalidations ==
            IF cut_invalidations
            THEN Take(cascade_data.invalidations, builder.max_invalidations)
            ELSE cascade_data.invalidations
        cut_size ==
            /\ ExceedsResponseSize(builder,
                   EstimateResponseSize(updated, deleted, invalidations))
            /\ Len(updated) + Len(deleted) > 100
    IN [updated       |-> IF cut_size THEN Take(updated, 50) ELSE updated,
        deleted       |-> IF cut_size THEN Take(deleted, 50) ELSE deleted,
        invalidations |-> invalidations,
        metadata      |->
            SetFlag(SetFlag(SetFlag(SetFlag(cascade_data.metadata,
                cut_updated, "truncated_updated"),
                cut_deleted, "truncated_deleted"),
                cut_invalidations, "truncated_invalidations"),
                cut_size, "truncated_size")]

\* CascadeResponse(success, data, cascade, errors)
CascadeResponse(success, data, cascade, errors) ==
    [kind |-> "response", success |-> success, data |-> data,
     cascade |-> cascade, errors |-> errors]

\* build_response after get_cascade_data has returned cascade_data: the
\* response, or the ValueError that compute_invalidations raises
BuildResponseFrom(builder, cascade_data, primary_result, success, errors, type_order) ==
    LET planned ==
            IF builder.invalidator.present /\ success
            THEN ComputeInvalidations(cascade_data.updated, cascade_data.deleted,
                     primary_result, type_order,
                     builder.invalidator.max_invalidations)
            ELSE [raised |-> FALSE, hints |-> <<>>]
        with_invalidations ==
            [updated       |-> cascade_data.updated,
             deleted       |-> cascade_data.deleted,
             metadata      |-> cascade_data.metadata,
             invalidations |-> Take(planned.hints, builder.max_invalidations)]
    IN IF planned.raised
       THEN [kind |-> "raised", exc |-> "ValueError"]
       ELSE CascadeResponse(success, primary_result,
                ApplySizeLimits(builder, with_invalidations),
                ErrorsToDicts(errors))

\* the errors a caller passes along with success = False
SomeErrors == << CascadeError("resolver failed", "INTERNAL_ERROR", None) >>

\* a call of the builder: the builder it is made on and its arguments
BuildCall(op, builder, primary_result, success) ==
    [op |-> op, entity |-> "none", key |-> <<>>, builder |-> builder,
     primary_result |-> primary_result, success |-> success]

\* CascadeBuilder.build_response(primary_result, success, errors)
BuildResponse(builder, primary_result, success) ==
    /\ Idle
    /\ IF ~in_transaction
       THEN /\ ret' = RuntimeError
            /\ UNCHANGED <<in_transaction, transaction_id, log_vars, current_depth>>
       ELSE /\ \E order \in Orders(deleted_entities) :
                 LET data == CascadeData(order) IN
                 \E type_order \in
                        IF builder.invalidator.present /\ success
                        THEN Orders(AffectedTypes(data.updated, data.deleted))
                        ELSE {<<>>} :
                     ret' = BuildResponseFrom(builder, data, primary_result, success,
                                IF success THEN <<>> ELSE SomeErrors, type_order)
            /\ ResetTransactionState
    /\ call' = BuildCall("build_response", builder, primary_result, success)
    /\ UNCHANGED <<config_vars, stack, ncalls, ntx, scope>>

\* metadata of an error response
ErrorMetadata == [depth |-> 0, affected_count |-> 0, construction_time |-> 0]

\* CascadeBuilder.build_error_response(errors, primary_result)
BuildErrorResponse(errors, primary_result) ==
    /\ Idle
    /\ IF in_transaction
       THEN /\ \E order \in Orders(deleted_entities) :
                 LET data == CascadeData(order) IN
                 ret' = CascadeResponse(FALSE, primary_result,
                            [updated  |-> data.updated,
                             deleted  |-> data.deleted,
                             metadata |-> ErrorMetadata],
                            ErrorsToDicts(errors))
            /\ ResetTransactionState
       ELSE /\ ret' = CascadeResponse(FALSE, primary_result,
                          [updated |-> <<>>, deleted |-> <<>>,
                           invalidations |-> <<>>, metadata |-> ErrorMetadata],
                          ErrorsToDicts(errors))
            /\ UNCHANGED <<in_transaction, transaction_id, log_vars, current_depth>>
    \* no setting of the builder is read: the call is made on the default one
    /\ call' = BuildCall("build_error_response", DefaultBuilder,
                         primary_result, FALSE)
    /\ UNCHANGED <<config_vars, stack, ncalls, ntx, scope>>

\* StreamingCascadeBuilder.build_streaming_response(primary_result, success,
\* errors): the tracker's collections are read through get_updated_stream
\* and get_deleted_stream and the tracker is left as it is. order is the
\* iteration order of deleted_entities; deletedAt and timestamp are left out.
BuildStreamingResponse(builder, primary_result, success) ==
    /\ Idle
    /\ \E order \in Orders(deleted_entities) :
          LET updated == Take(BuildUpdatedEntities, builder.max_updated_entities)
              deleted == Take(BuildDeletedEntities(order),
                              builder.max_deleted_entities)
              metadata ==
                  SetFlag(SetFlag(
                      [depth |-> current_depth,
                       affected_count |-> Len(updated) + Len(deleted),
                       streaming |-> TRUE],
                      Len(updated_entities) > builder.max_updated_entities,
                      "truncated_updated"),
                      Cardinality(deleted_entities) > builder.max_deleted_entities,
                      "truncated_deleted")
          IN \E type_order \in
                    IF builder.invalidator.present /\ success
                    THEN Orders(AffectedTypes(updated, deleted))
                    ELSE {<<>>} :
                LET planned ==
                        IF builder.invalidator.present /\ success
                        THEN ComputeInvalidations(updated, deleted, primary_result,
                                 type_order, builder.invalidator.max_invalidations)
                        ELSE [raised |-> FALSE, hints |-> <<>>]
                IN ret' = IF planned.raised
                          THEN [kind |-> "raised", exc |-> "ValueError"]
                          ELSE CascadeResponse(success, primary_result,
                                   [updated       |-> updated,
                                    deleted       |-> deleted,
                                    invalidations |-> Take(planned.hints,
                                                        builder.max_invalidations),
                                    metadata      |-> metadata],
                                   ErrorsToDicts(IF success THEN <<>> ELSE SomeErrors))
    /\ call' = BuildCall("build_streaming_response", builder, primary_result, success)
    /\ UNCHANGED <<config_vars, in_transaction, transaction_id, log_vars,
                   current_depth, stack, ncalls, ntx, scope>>

Next ==
    \/ StartTransaction
    \/ TrackOutsideTransaction
    \/ \E o \in Objects : TrackCreate(o)
    \/ \E o \in Objects : TrackUpdate(o)
    \/ \E k \in Keys : TrackDelete(k)
    \/ WalkNext
    \/ WalkReturn
    \/ EndTransaction

\* the tracker on every entity graph: transactions opened, fed and ended
Spec == Init /\ [][Next]_vars

\* the entity graphs of the builder's runs
BuildHeaps == {h \in Heaps : h["b1"] = <<"a1">>}

\* the entities the resolver of the builder's runs touches
BuildObjects == {"a1", "b1", "log7"}

InitBuild ==
    /\ Init
    /\ heap \in BuildHeaps
    /\ max_depth = 1
    /\ enable_relationship_tracking
    /\ exclude_types = {}

NextBuild ==
    \/ StartTransaction
    \/ EnterScope
    \/ ExitScopeNormal
    \/ TrackOutsideTransaction
    \/ \E o \in BuildObjects : TrackCreate(o)
    \/ \E o \in BuildObjects : TrackUpdate(o)
    \/ \E k \in {KeyOf(o) : o \in BuildObjects} : TrackDelete(k)
    \/ WalkNext
    \/ WalkReturn
    \/ \E b \in Builders, p \in PrimaryResults, ok \in BOOLEAN : BuildResponse(b, p, ok)
    \/ \E p \in {None} : BuildErrorResponse(SomeErrors, p)

\* one entity graph: the tracker driven by a resolver and closed by the builder
SpecBuild == InitBuild /\ [][NextBuild]_vars

\* the streaming builders the callers construct: the defaults with a planner,
\* and small caps
StreamingBuilders ==
    { Builder(Invalidator(50), 5000, 500, 100, 50),
      Builder(Invalidator(50), 1, 1, 1, 2) }

NextStream ==
    \/ StartTransaction
    \/ TrackOutsideTransaction
    \/ \E o \in BuildObjects : TrackCreate(o)
    \/ \E o \in BuildObjects : TrackUpdate(o)
    \/ \E k \in {KeyOf(o) : o \in BuildObjects} : TrackDelete(k)
    \/ WalkNext
    \/ WalkReturn
    \/ EndTransaction
    \/ \E b \in StreamingBuilders, p \in PrimaryResults, ok \in BOOLEAN :
          BuildStreamingResponse(b, p, ok)

\* one entity graph: the tracker driven by a resolver and read by the
\* streaming builder
SpecStream == InitBuild /\ [][NextStream]_vars

NextScope ==
    \/ StartTransaction
    \/ EnterScope
    \/ ExitScopeNormal
    \/ ExitScopeException
    \/ EndTransaction
    \/ GetCascadeData
    \/ TrackOutsideTransaction
    \/ \E o \in Objects : TrackCreate(o)
    \/ \E o \in Objects : TrackUpdate(o)
    \/ \E k \in Keys : TrackDelete(k)
    \/ WalkNext
    \/ WalkReturn

\* one entity graph: transactions opened and closed directly or through the
\* context manager, and read while open
SpecScope == InitBuild /\ [][NextScope]_vars

\* the resolver assigns new field values to an object it holds, between two
\* calls of the tracker
WriteField(o) ==
    /\ Idle
    /\ in_transaction
    /\ revision[o] < MaxWrites
    /\ revision' = [revision EXCEPT ![o] = @ + 1]
    /\ UNCHANGED <<heap, max_depth, exclude_types, enable_relationship_tracking,
                   mw, arg, shape, in_transaction, transaction_id, log_vars,
                   current_depth, stack, call, ncalls, ntx, scope, ret>>

NextSnapshot ==
    \/ StartTransaction
    \/ \E o \in BuildObjects : TrackCreate(o)
    \/ \E o \in BuildObjects : TrackUpdate(o)
    \/ WalkNext
    \/ WalkReturn
    \/ \E o \in BuildObjects : WriteField(o)
    \/ GetCascadeData
    \/ EndTransaction

\* one entity graph: a resolver that goes on writing to the objects it has
\* handed to the tracker
SpecSnapshot == InitBuild /\ [][NextSnapshot]_vars

\* a tracker as constructed, about to be handed objects of every shape
InitShapes ==
    /\ heap \in Heaps
    /\ max_depth \in {1, MaxDepthBound}
    /\ enable_relationship_tracking = TRUE
    /\ exclude_types = {}
    /\ shape \in Shapes
    /\ revision = NoWrites
    /\ in_transaction = FALSE
    /\ transaction_id = 0
    /\ updated_entities = <<>>
    /\ deleted_entities = {}
    /\ visited_entities = {}
    /\ current_depth = 0
    /\ stack = <<>>
    /\ call = NoCall
    /\ ncalls = 0
    /\ ntx = 0
    /\ scope = FALSE
    /\ ret = NoRet
    /\ mw = NoMw
    /\ arg = NoArg

NextShapes ==
    \/ StartTransaction
    \/ \E o \in Objects : TrackCreate(o)
    \/ \E o \in Objects : TrackUpdate(o)
    \/ \E k \in Keys : TrackDelete(k)
    \/ WalkNext
    \/ WalkReturn
    \/ EndTransaction
    \/ BuildResponse(DefaultBuilder, None, TRUE)

\* the tracker fed with objects that lack an id or cannot be serialized
SpecShapes == InitShapes /\ [][NextShapes]_vars

(***************************************************************************)
(* Helper functions under direct call                                      *)
(***************************************************************************)
\* a tracker as constructed, no middleware call
TrackerAtRest ==
    /\ heap = NoRel
    /\ max_depth = 3
    /\ exclude_types = {}
    /\ enable_relationship_tracking = TRUE
    /\ in_transaction = FALSE
    /\ transaction_id = 0
    /\ updated_entities = <<>>
    /\ deleted_entities = {}
    /\ visited_entities = {}
    /\ current_depth = 0
    /\ stack = <<>>
    /\ call = NoCall
    /\ ncalls = 0
    /\ ntx = 0
    /\ scope = FALSE
    /\ ret = NoRet
    /\ mw = NoMw
    /\ revision = NoWrites
    /\ shape = PlainEntities

\* the list lengths around 0 and around the 50 and the 100 of
\* _apply_size_limits
ListLengths ==
    {n \in UNION {(c - Margin)..(c + Margin) : c \in {0, 50, 100}} : n >= 0}

\* n records of updated or deleted entities
EntityRecords(n) == [i \in 1..n |-> [typename |-> "A", id |-> i]]

\* n hints that differ in their arguments
HintRecords(n) ==
    [i \in 1..n |-> [queryName |-> "getA", arguments |-> [id |-> i],
                     strategy |-> "REFETCH", scope |-> "EXACT"]]

\* builders whose size bound is never, sometimes and always exceeded by the
\* lists, and one whose count caps cut first
LimitBuilders ==
    { Builder(NoInvalidator, 5000, 500, 100, 50),
      Builder(NoInvalidator, 100, 500, 500, 50),
      Builder(NoInvalidator, 1, 500, 500, 50),
      Builder(NoInvalidator, 1, 51, 51, 2) }

InitLimits ==
    /\ TrackerAtRest
    /\ \E b \in LimitBuilders, nu \in ListLengths, nd \in ListLengths,
          ni \in {0, 3} :
          arg = [fn |-> "_apply_size_limits", builder |-> b,
                 cascade_data |->
                     [updated       |-> EntityRecords(nu),
                      deleted       |-> EntityRecords(nd),
                      invalidations |-> HintRecords(ni),
                      metadata      |-> [depth |-> 0, affected_count |-> nu + nd]]]

\* builder._apply_size_limits(cascade_data)
ApplySizeLimitsCall ==
    /\ arg.fn = "_apply_size_limits"
    /\ ret = NoRet
    /\ ret' = [kind |-> "limited",
               cascade |-> ApplySizeLimits(arg.builder, arg.cascade_data)]
    /\ UNCHANGED <<config_vars, in_transaction, transaction_id, log_vars,
                   current_depth, stack, call, ncalls, ntx, scope>>

NextLimits == ApplySizeLimitsCall

\* _apply_size_limits on lists of every length of ListLengths
SpecLimits == InitLimits /\ [][NextLimits]_vars

\* an empty arguments mapping
EmptyArguments == [k \in {} |-> 0]

\* hints that differ in one field each from the first: arguments None, {}
\* and {id: 1}, strategy and scope, queryPattern for queryName, scope ALL,
\* no scope, a scope that is none of the four
HintPool ==
    { [queryName |-> "q", strategy |-> "INVALIDATE", scope |-> "PREFIX"],
      [queryName |-> "q", strategy |-> "INVALIDATE", scope |-> "PREFIX",
       arguments |-> NoArguments],
      [queryName |-> "q", strategy |-> "INVALIDATE", scope |-> "PREFIX",
       arguments |-> EmptyArguments],
      [queryName |-> "q", strategy |-> "INVALIDATE", scope |-> "PREFIX",
       arguments |-> [id |-> 1]],
      [queryName |-> "q", strategy |-> "REFETCH", scope |-> "EXACT"],
      [queryPattern |-> "q", strategy |-> "INVALIDATE", scope |-> "PATTERN"],
      [queryName |-> "q", strategy |-> "INVALIDATE", scope |-> "ALL"],
      [queryName |-> "q", strategy |-> "INVALIDATE"],
      [queryName |-> "q", strategy |-> "INVALIDATE", scope |-> "SUBTREE"] }

\* the hint lists of up to MaxHints hints
HintLists == UNION {[1..n -> HintPool] : n \in 0..MaxHints}

InitPlan ==
    /\ TrackerAtRest
    /\ \E hints \in HintLists :
          \/ \E fn \in {"deduplicate_invalidations", "prioritize_invalidations"} :
                arg = [fn |-> fn, invalidations |-> hints]
          \/ \E n \in {2, 50} :
                arg = [fn |-> "_optimize_invalidations", invalidations |-> hints,
                       max_invalidations |-> n]

\* deduplicate_invalidations(invalidations)
DeduplicateInvalidationsCall ==
    /\ arg.fn = "deduplicate_invalidations"
    /\ ret = NoRet
    /\ ret' = [kind |-> "hints",
               hints |-> DeduplicateInvalidations(arg.invalidations)]
    /\ UNCHANGED <<config_vars, in_transaction, transaction_id, log_vars,
                   current_depth, stack, call, ncalls, ntx, scope>>

\* prioritize_invalidations(invalidations)
PrioritizeInvalidationsCall ==
    /\ arg.fn = "prioritize_invalidations"
    /\ ret = NoRet
    /\ ret' = [kind |-> "hints",
               hints |-> PrioritizeInvalidations(arg.invalidations)]
    /\ UNCHANGED <<config_vars, in_transaction, transaction_id, log_vars,
                   current_depth, stack, call, ncalls, ntx, scope>>

\* CascadeInvalidator({"max_invalidations": n})._optimize_invalidations(invalidations)
OptimizeInvalidationsCall ==
    /\ arg.fn = "_optimize_invalidations"
    /\ ret = NoRet
    /\ ret' = [kind |-> "hints",
               hints |-> OptimizeInvalidations(arg.invalidations,
                                              arg.max_invalidations)]
    /\ UNCHANGED <<config_vars, in_transaction, transaction_id, log_vars,
                   current_depth, stack, call, ncalls, ntx, scope>>

NextPlan ==
    \/ DeduplicateInvalidationsCall
    \/ PrioritizeInvalidationsCall
    \/ OptimizeInvalidationsCall

\* the helpers of the planner on every hint list of HintLists
SpecPlan == InitPlan /\ [][NextPlan]_vars

(***************************************************************************)
(* CascadeMiddleware                                                       *)
(***************************************************************************)
\* a directive node: directive.name.value and its arguments by name
Directive(name, arguments) == [name |-> name, arguments |-> arguments]

NoArgs == [n \in {} |-> 0]

\* field definitions of mutations, by their directives
FieldDefs ==
    { [directives |-> <<>>],
      [directives |-> << Directive("deprecated", NoArgs) >>],
      [directives |-> << Directive("cascade", NoArgs) >>],
      [directives |-> << Directive("cascade", "maxDepth" :> 1) >>],
      [directives |-> << Directive("deprecated", NoArgs),
                         Directive("cascade", "excludeTypes" :> {"AuditLog"}) >>],
      [directives |-> << Directive("cascade",
                             ("maxDepth" :> 0) @@ ("includeRelated" :> FALSE)) >>] }

\* the config the middleware was constructed with
MiddlewareConfigs ==
    { NoArgs,
      "max_depth" :> 1,
      "exclude_types" :> {"AuditLog"},
      ("max_depth" :> 5) @@ ("exclude_types" :> {"AuditLog"}) }

\* what awaiting execute_fn() does: it returns a value or raises
ResolverOutcomes ==
    { [kind |-> "returns", value |-> None],
      [kind |-> "returns", value |-> "a1"],
      [kind |-> "raises", message |-> "boom"] }

\* dict.get(k, default)
GetOr(d, k, default) == IF k \in DOMAIN d THEN d[k] ELSE default

\* _has_cascade_directive
HasCascadeDirective(field_def) ==
    \E i \in DOMAIN field_def.directives : field_def.directives[i].name = "cascade"

RECURSIVE CascadeConfigFrom(_, _)
CascadeConfigFrom(directives, config) ==
    IF directives = <<>> THEN config
    ELSE CascadeConfigFrom(Tail(directives),
             IF Head(directives).name = "cascade"
             THEN [k \in DOMAIN config |->
                      GetOr(Head(directives).arguments, k, config[k])]
             ELSE config)

\* _get_cascade_config
GetCascadeConfig(field_def) ==
    CascadeConfigFrom(field_def.directives,
        [maxDepth |-> 3, includeRelated |-> TRUE, autoInvalidate |-> TRUE,
         excludeTypes |-> {}])

\* the methods class CascadeTransaction defines
CascadeTransactionMethods == {"__enter__", "__exit__"}

\* "async with obj" needs __aenter__ and __aexit__ on the type of obj
SupportsAsyncWith(methods) == {"__aenter__", "__aexit__"} \subseteq methods

InitMW ==
    /\ heap = NoRel
    /\ max_depth = 3
    /\ exclude_types = {}
    /\ enable_relationship_tracking = TRUE
    /\ in_transaction = FALSE
    /\ transaction_id = 0
    /\ updated_entities = <<>>
    /\ deleted_entities = {}
    /\ visited_entities = {}
    /\ current_depth = 0
    /\ stack = <<>>
    /\ call = NoCall
    /\ ncalls = 0
    /\ ntx = 0
    /\ scope = FALSE
    /\ ret = NoRet
    /\ arg = NoArg
    /\ revision = NoWrites
    /\ shape = PlainEntities
    /\ \E f \in FieldDefs, c \in MiddlewareConfigs, r \in ResolverOutcomes :
          mw = [pc |-> "called", field_def |-> f, config |-> c, resolver |-> r,
                cascade_config |-> NoArgs, result |-> NoRet]

tracker_state == <<in_transaction, transaction_id, updated_entities,
                   deleted_entities, visited_entities, current_depth, stack,
                   call, ncalls, ntx, scope, ret, heap, arg, revision, shape>>

\* intercept_mutation: if not self._has_cascade_directive(field_def)
MwCheckDirective ==
    /\ mw.pc = "called"
    /\ mw' = IF HasCascadeDirective(mw.field_def)
             THEN [mw EXCEPT !.pc = "config",
                             !.cascade_config = GetCascadeConfig(mw.field_def)]
             ELSE [mw EXCEPT !.pc = "bypass"]
    /\ UNCHANGED <<tracker_state, max_depth, exclude_types,
                   enable_relationship_tracking>>

\* intercept_mutation: return await execute_fn()
MwBypass ==
    /\ mw.pc = "bypass"
    /\ mw' = [mw EXCEPT !.pc = "done",
                 !.result = IF mw.resolver.kind = "returns"
                            THEN [kind |-> "value", value |-> mw.resolver.value]
                            ELSE [kind |-> "raised", exc |-> "Exception"]]
    /\ UNCHANGED <<tracker_state, max_depth, exclude_types,
                   enable_relationship_tracking>>

\* intercept_mutation: tracker = self.tracker_factory() (_default_tracker_factory)
\* followed by self._configure_tracker(tracker, cascade_config)
MwCreateTracker ==
    /\ mw.pc = "config"
    /\ max_depth' = GetOr(mw.cascade_config, "maxDepth",
                          GetOr(mw.config, "max_depth", 3))
    /\ exclude_types' = GetOr(mw.cascade_config, "excludeTypes", {})
    /\ enable_relationship_tracking' = GetOr(mw.cascade_config, "includeRelated", TRUE)
    /\ mw' = [mw EXCEPT !.pc = "enter"]
    /\ UNCHANGED tracker_state

\* the result of the body of the with statement, were it entered with the
\* change log the resolver left: build_response on return,
\* build_error_response with an INTERNAL_ERROR on an exception
WithBody(resolver) ==
    IF resolver.kind = "returns"
    THEN BuildResponseFrom(Builder(Invalidator(50), 5000, 500, 100, 50),
             CascadeData(<<>>), resolver.value, TRUE, <<>>, <<>>)
    ELSE CascadeResponse(FALSE, None,
             [updated  |-> CascadeData(<<>>).updated,
              deleted  |-> CascadeData(<<>>).deleted,
              metadata |-> ErrorMetadata],
             ErrorsToDicts(<< CascadeError(resolver.message, "INTERNAL_ERROR", None) >>))

\* intercept_mutation: async with CascadeTransaction(tracker)
MwEnterTransaction ==
    /\ mw.pc = "enter"
    /\ mw' = [mw EXCEPT !.pc = "done",
                 !.result = IF SupportsAsyncWith(CascadeTransactionMethods)
                            THEN WithBody(mw.resolver)
                            ELSE [kind |-> "raised", exc |-> "TypeError"]]
    /\ UNCHANGED <<tracker_state, max_depth, exclude_types,
                   enable_relationship_tracking>>

NextMW ==
    \/ MwCheckDirective
    \/ MwBypass
    \/ MwCreateTracker
    \/ MwEnterTransaction

\* one intercepted mutation
SpecMW == InitMW /\ [][NextMW]_vars

\* a tracker object of its own, as CascadeTracker.__init__ leaves it
NewTracker(depth, excluded) ==
    [max_depth |-> depth, exclude_types |-> excluded,
     enable_relationship_tracking |-> TRUE, in_transaction |-> FALSE,
     updated_entities |-> <<>>, deleted_entities |-> {}, visited_entities |-> {}]

NoTracker == [max_depth |-> 0, exclude_types |-> {},
              enable_relationship_tracking |-> FALSE, in_transaction |-> FALSE,
              updated_entities |-> <<>>, deleted_entities |-> {},
              visited_entities |-> {}, absent |-> TRUE]

\* the resolvers of two mutations in flight: each tracks one entity of its
\* own and returns it
PairResolvers ==
    { [kind |-> "returns", value |-> o, tracks |-> o] : o \in {"a1", "b1"} }

\* two intercept_mutation calls on one middleware, both just called
InitPair ==
    /\ heap = NoRel
    /\ max_depth = 3
    /\ exclude_types = {}
    /\ enable_relationship_tracking = TRUE
    /\ in_transaction = FALSE
    /\ transaction_id = 0
    /\ updated_entities = <<>>
    /\ deleted_entities = {}
    /\ visited_entities = {}
    /\ current_depth = 0
    /\ stack = <<>>
    /\ call = NoCall
    /\ ncalls = 0
    /\ ntx = 0
    /\ scope = FALSE
    /\ ret = NoRet
    /\ arg = NoArg
    /\ revision = NoWrites
    /\ shape = PlainEntities
    /\ \E c \in MiddlewareConfigs :
       \E f1 \in FieldDefs, f2 \in FieldDefs :
       \E r1 \in PairResolvers, r2 \in PairResolvers :
          mw = [pc |-> "pair", config |-> c,
                tasks |-> << [pc |-> "called", field_def |-> f1, resolver |-> r1,
                              tracker |-> NoTracker, result |-> NoRet],
                             [pc |-> "called", field_def |-> f2, resolver |-> r2,
                              tracker |-> NoTracker, result |-> NoRet] >>]

\* _default_tracker_factory followed by _configure_tracker
ConfiguredTracker(config, cascade_config) ==
    [NewTracker(GetOr(config, "max_depth", 3), GetOr(config, "exclude_types", {}))
        EXCEPT !.max_depth = GetOr(cascade_config, "maxDepth", @),
               !.exclude_types = GetOr(cascade_config, "excludeTypes", {}),
               !.enable_relationship_tracking =
                    GetOr(cascade_config, "includeRelated", TRUE)]

\* intercept_mutation of task i from its call to its first await: without
\* the directive it awaits execute_fn(); with it, it builds its own tracker
\* and reaches "async with CascadeTransaction(tracker)", which either
\* starts the transaction or raises
TaskRun(i) ==
    /\ mw.pc = "pair"
    /\ mw.tasks[i].pc = "called"
    /\ LET task == mw.tasks[i]
           tracker == ConfiguredTracker(mw.config, GetCascadeConfig(task.field_def))
       IN mw' = [mw EXCEPT !.tasks[i] =
                    IF ~HasCascadeDirective(task.field_def)
                    THEN [task EXCEPT !.pc = "bypass"]
                    ELSE IF SupportsAsyncWith(CascadeTransactionMethods)
                    THEN [task EXCEPT !.pc = "awaiting",
                                      !.tracker = [tracker EXCEPT
                                                      !.in_transaction = TRUE]]
                    ELSE [task EXCEPT !.pc = "done",
                                      !.tracker = tracker,
                                      !.result = [kind |-> "raised",
                                                  exc |-> "TypeError"]]]
    /\ UNCHANGED <<tracker_state, max_depth, exclude_types,
                   enable_relationship_tracking>>

\* execute_fn() of a task without the directive completes
TaskBypass(i) ==
    /\ mw.pc = "pair"
    /\ mw.tasks[i].pc = "bypass"
    /\ mw' = [mw EXCEPT !.tasks[i].pc = "done",
                        !.tasks[i].result =
                            [kind |-> "value", value |-> mw.tasks[i].resolver.value]]
    /\ UNCHANGED <<tracker_state, max_depth, exclude_types,
                   enable_relationship_tracking>>

NextPair ==
    \/ \E i \in 1..2 : TaskRun(i)
    \/ \E i \in 1..2 : TaskBypass(i)

\* two intercepted mutations interleaved at their awaits
SpecPair == InitPair /\ [][NextPair]_vars

(***************************************************************************)
(* Properties of the change log                                            *)
(***************************************************************************)

\* C1: no cascade key is at the same time a key of updated_entities and a
\* member of deleted_entities, in any reachable state of a transaction.
C1_UpdatedDeletedDisjoint ==
    DictKeys(updated_entities) \cap deleted_entities = {}

\* C2: once a key is in deleted_entities, no later step of the same
\* transaction adds it to updated_entities, and it stays in deleted_entities.
C2_DeletedStaysDeleted ==
    [][\A k \in deleted_entities :
          (in_transaction /\ in_transaction' /\ transaction_id' = transaction_id)
              => (k \in deleted_entities' /\ k \notin DictKeys(updated_entities'))]_vars

\* C3: a track_create of a key of a non-excluded type that directly follows
\* a track_update of the same key in the same transaction leaves the key in
\* updated_entities with operation CREATED and the entity of the create call.
C3_UpdateThenCreate ==
    [][(/\ in_transaction
        /\ call.op = "UPDATED"
        /\ ncalls' = ncalls + 1
        /\ call'.op = "CREATED"
        /\ call'.key = call.key
        /\ call.key[1] \notin exclude_types)
       => (/\ call.key \in DictKeys(updated_entities')
           /\ DictGet(updated_entities', call.key).operation = "CREATED"
           /\ DictGet(updated_entities', call.key).entity = call'.entity)]_vars

\* the objects within n hops of the objects of from, along relationships of
\* objects whose type is not excluded
RECURSIVE Within(_, _)
Within(from, n) ==
    LET kept == {o \in from : TypeOf(o) \notin exclude_types} IN
    IF n = 0 THEN kept
    ELSE kept \cup Within(UNION {{heap[o][i] : i \in DOMAIN heap[o]} : o \in kept},
                           n - 1)

\* C4: when the first tracking call of a transaction, a create or an update
\* of a root, has returned and relationship tracking is on, every entity of
\* a non-excluded type within max_depth hops of the root is in
\* updated_entities.
C4_BreadthFirstCoverage ==
    (/\ Idle
     /\ in_transaction
     /\ ncalls = 1
     /\ call.op \in {"CREATED", "UPDATED"}
     /\ enable_relationship_tracking)
    => \A o \in Within({call.entity}, max_depth) :
           KeyOf(o) \in DictKeys(updated_entities)

\* C5: 0 <= current_depth <= max_depth in every reachable state, also in
\* the middle of a nested traversal.
C5_DepthBounded == 0 <= current_depth /\ current_depth <= max_depth

\* C5 witness: a nested traversal has reached the depth bound.
C5_Witness ==
    /\ Len(stack) >= 2
    /\ current_depth = max_depth
    /\ stack[Len(stack)] # <<>>

RECURSIVE PendingWork(_)
PendingWork(frames) ==
    IF frames = <<>> THEN 0
    ELSE 1 + Len(Head(frames)) + PendingWork(Tail(frames))

\* what is left to do for the call in flight: keys never visited count for
\* more than a frame with all its related entities
Rank == 4 * Cardinality(Keys \ visited_entities) + PendingWork(stack)

TwoCycle ==
    /\ heap["a1"] = <<"b1">>
    /\ heap["b1"] = <<"a1">>

\* C6: tracking a root terminates on every entity graph, cycles included
\* (each step of a call in flight lowers a measure that is never negative);
\* a key, once visited, is not recorded again in its transaction; and on
\* the cycle A#1 -> B#1 -> A#1 with max_depth >= 1, tracking A#1 first
\* leaves updated_entities holding exactly (A,1) then (B,1).
C6_CyclesTerminate ==
    /\ [](Rank >= 0)
    /\ [][stack # <<>> => Rank' < Rank]_vars
    /\ [][\A k \in visited_entities :
             (k \in visited_entities' /\ k \in DictKeys(updated_entities'))
                 => (/\ k \in DictKeys(updated_entities)
                     /\ DictGet(updated_entities', k) = DictGet(updated_entities, k))]_vars
    /\ []((/\ TwoCycle
           /\ Idle
           /\ in_transaction
           /\ ncalls = 1
           /\ call.entity = "a1"
           /\ enable_relationship_tracking
           /\ max_depth >= 1)
          => [i \in DOMAIN updated_entities |-> updated_entities[i].key]
                 = << <<"A", "1">>, <<"B", "1">> >>)

\* C6 witness: the walk from A#1 around the two-node cycle with
\* max_depth = 5 has returned with both keys recorded.
C6_Witness ==
    /\ TwoCycle
    /\ max_depth = 5
    /\ Idle
    /\ in_transaction
    /\ ncalls = 1
    /\ call = [op |-> "CREATED", entity |-> "a1", key |-> <<"A", "1">>]
    /\ Len(updated_entities) = 2

\* C7: a track_create or track_update of an entity of an excluded type
\* changes neither updated_entities nor deleted_entities nor
\* visited_entities and starts no traversal; the same holds when the entity
\* is met as a related entity during a traversal.
C7_ExcludedIgnored ==
    /\ [][(/\ ncalls' = ncalls + 1
           /\ call'.op \in {"CREATED", "UPDATED"}
           /\ call'.key[1] \in exclude_types)
          => UNCHANGED <<updated_entities, deleted_entities, visited_entities,
                         current_depth, stack>>]_vars
    /\ [][(/\ stack # <<>>
           /\ stack[Len(stack)] # <<>>
           /\ TypeOf(Head(stack[Len(stack)])) \in exclude_types)
          => (/\ UNCHANGED <<updated_entities, deleted_entities, visited_entities,
                             current_depth>>
              /\ Len(stack') = Len(stack))]_vars
    /\ [](\A k \in DictKeys(updated_entities) : k[1] \notin exclude_types)

\* C7 witness: a traversal has passed an excluded entity that has related
\* entities of its own, and has gone on to the next related entity.
C7_Witness ==
    /\ exclude_types = {"AuditLog"}
    /\ heap["a1"] = <<"log7", "b1">>
    /\ heap["log7"] # <<>>
    /\ call.entity = "a1"
    /\ stack = << <<"b1">> >>
    /\ DictKeys(updated_entities) = {<<"A", "1">>}

\* C8: no key of an excluded type is ever in deleted_entities.
C8_ExcludedNotDeleted ==
    \A k \in deleted_entities : k[1] \notin exclude_types

(***************************************************************************)
(* Properties of the responses                                             *)
(***************************************************************************)

\* C9: every response built for a failed mutation has empty updated and
\* deleted lists, no invalidation hint, and metadata with depth 0 and
\* affected_count 0, whatever was tracked before the failure.
C9_FailedResponseEmpty ==
    (ret.kind = "response" /\ ~ret.success)
    => (/\ ret.cascade.updated = <<>>
        /\ ret.cascade.deleted = <<>>
        /\ "invalidations" \in DOMAIN ret.cascade => ret.cascade.invalidations = <<>>
        /\ ret.cascade.metadata.depth = 0
        /\ ret.cascade.metadata.affected_count = 0)

\* C10: for a field with the @cascade directive intercept_mutation returns
\* a CascadeResponse: success and the resolver's value when the resolver
\* returns; failure, no data and an INTERNAL_ERROR when the resolver raises.
C10_AlwaysCascadeResponse ==
    (/\ mw.pc = "done"
     /\ \E i \in DOMAIN mw.field_def.directives :
            mw.field_def.directives[i].name = "cascade")
    => (/\ mw.result.kind = "response"
        /\ mw.resolver.kind = "returns"
              => (mw.result.success /\ mw.result.data = mw.resolver.value)
        /\ mw.resolver.kind = "raises"
              => (/\ ~mw.result.success
                  /\ mw.result.data = None
                  /\ Len(mw.result.errors) = 1
                  /\ mw.result.errors[1].code = "INTERNAL_ERROR"))

\* C11: every response of build_response holds at most
\* max_updated_entities updated records, max_deleted_entities deleted
\* records and max_invalidations hints of the builder it was built on.
C11_CapsRespected ==
    (ret.kind = "response" /\ call.op = "build_response")
    => (/\ Len(ret.cascade.updated) <= call.builder.max_updated_entities
        /\ Len(ret.cascade.deleted) <= call.builder.max_deleted_entities
        /\ Len(ret.cascade.invalidations) <= call.builder.max_invalidations)

\* a response whose updated list was cut and whose lists sit at their caps
C11_Witness ==
    /\ ret.kind = "response"
    /\ call.op = "build_response"
    /\ "truncated_updated" \in DOMAIN ret.cascade.metadata
    /\ ret.cascade.metadata.affected_count > call.builder.max_updated_entities
    /\ Len(ret.cascade.updated) = call.builder.max_updated_entities
    /\ Len(ret.cascade.invalidations) = call.builder.max_invalidations

\* the hints the planner has for the open transaction before any cap: the
\* automatic, custom and primary hints without their duplicates
PlannedHints(builder, primary_result, success) ==
    LET data == CascadeData(CHOOSE order \in Orders(deleted_entities) : TRUE)
        type_order == CHOOSE order \in
                          Orders(AffectedTypes(data.updated, data.deleted)) : TRUE
        primary == ComputePrimaryInvalidations(primary_result)
    IN IF builder.invalidator.present /\ success /\ ~primary.raised
       THEN DeduplicateInvalidations(
                ComputeAutomaticInvalidations(type_order)
                    \o ComputeCustomInvalidations(data.updated, data.deleted)
                    \o primary.hints)
       ELSE <<>>

\* C12: when build_response returns fewer updated records, deleted records
\* or hints than were tracked or planned, the metadata of the response
\* carries the truncation flag of that list.
C12_TruncationFlagged ==
    [][(in_transaction /\ call'.op = "build_response" /\ ret'.kind = "response")
       => LET metadata == ret'.cascade.metadata IN
          /\ Len(ret'.cascade.updated) < Len(updated_entities)
                => "truncated_updated" \in DOMAIN metadata
          /\ Len(ret'.cascade.deleted) < Cardinality(deleted_entities)
                => "truncated_deleted" \in DOMAIN metadata
          /\ Len(ret'.cascade.invalidations)
                    < Len(PlannedHints(call'.builder, call'.primary_result,
                                       call'.success))
                => "truncated_invalidations" \in DOMAIN metadata]_vars

(***************************************************************************)
(* Properties of the transaction life cycle                                *)
(***************************************************************************)

\* C13: an end_transaction called right after an end_transaction that
\* returned, with no start_transaction in between, does not raise and leaves
\* the tracker closed with an empty change log.
C13_EndIdempotent ==
    [][(ret.kind = "cascade_data" /\ ~in_transaction /\ EndTransaction)
       => (/\ ret'.kind # "raised"
           /\ ~in_transaction'
           /\ updated_entities' = <<>>
           /\ deleted_entities' = {})]_vars

\* C14: start_transaction during a transaction, and track_create,
\* track_update or track_delete outside one, raise and leave in_transaction,
\* transaction_id, updated, deleted, visited and current_depth as they were.
C14_ViolationsRejected ==
    [][((in_transaction /\ StartTransaction) \/ TrackOutsideTransaction)
       => (/\ ret' = RuntimeError
           /\ UNCHANGED <<in_transaction, transaction_id, log_vars,
                          current_depth>>)]_vars

\* a second start_transaction was refused on a transaction that holds changes
C14_Witness ==
    /\ in_transaction
    /\ ret = RuntimeError
    /\ updated_entities # <<>>
    /\ deleted_entities # {}

\* C15: after an exception has escaped a transaction scope the tracker is
\* closed, has no transaction id and its updated, deleted and visited
\* collections are empty.
C15_AbortOnException ==
    (ret.kind = "raised" /\ ret.exc = "Exception")
    => (/\ ~in_transaction
        /\ transaction_id = 0
        /\ updated_entities = <<>>
        /\ deleted_entities = {}
        /\ visited_entities = {})

\* an exception has escaped the scope of the first transaction after a
\* tracking call was made in it
C15_Witness ==
    /\ ret.kind = "raised"
    /\ ret.exc = "Exception"
    /\ ntx = 1
    /\ call.op \in {"CREATED", "UPDATED", "DELETED"}

\* C16: a normal exit of a transaction scope closes the transaction and
\* keeps the tracked changes, and an end_transaction called next returns
\* the cascade data of those changes.
C16_EndAfterNormalExit ==
    /\ [][ExitScopeNormal => (~in_transaction' /\ UNCHANGED log_vars)]_vars
    /\ [][(ret = NoRet /\ ~in_transaction /\ ntx >= 1 /\ EndTransaction)
          => (/\ ret'.kind = "cascade_data"
              /\ ret'.data.updated = BuildUpdatedEntities
              /\ \E order \in Orders(deleted_entities) :
                     ret'.data.deleted = BuildDeletedEntities(order)
              /\ ret'.data.metadata.affected_count
                     = Len(updated_entities) + Cardinality(deleted_entities))]_vars

(***************************************************************************)
(* Properties of the cascade data                                          *)
(***************************************************************************)

\* the position of key in the change log d
PositionOf(d, key) == CHOOSE i \in DOMAIN d : d[i].key = key

\* new lists the keys of old that it still holds in the order of old, and
\* the keys it has gained after them
KeepsInsertionOrder(old, new) ==
    \A i, j \in DOMAIN new :
        (i < j /\ new[j].key \in DictKeys(old))
        => (/\ new[i].key \in DictKeys(old)
            /\ PositionOf(old, new[i].key) < PositionOf(old, new[j].key))

\* C17: the UpdatedRecords of the cascade data stand in the order in which
\* their keys were first inserted into the change log: within a transaction
\* every step keeps the keys already logged in their order and puts new keys
\* after them, and end_transaction lists the log in its order.
C17_UpdatedInInsertionOrder ==
    /\ [][transaction_id' = transaction_id
            => KeepsInsertionOrder(updated_entities, updated_entities')]_vars
    /\ [][(EndTransaction /\ ret'.kind = "cascade_data")
            => (/\ Len(ret'.data.updated) = Len(updated_entities)
                /\ \A i \in DOMAIN updated_entities :
                       /\ ret'.data.updated[i].typename = updated_entities[i].key[1]
                       /\ ret'.data.updated[i].id = updated_entities[i].key[2])]_vars

\* cascade data listing a root before the neighbour found from it, after the
\* neighbour was tracked a second time by a call of its own
C17_Witness ==
    /\ ret.kind = "cascade_data"
    /\ ncalls = 2
    /\ call.op = "CREATED"
    /\ call.key = KeyOf("b1")
    /\ Len(ret.data.updated) >= 2
    /\ ret.data.updated[1].typename = "A"
    /\ ret.data.updated[2].typename = "B"
    /\ ret.data.updated[2].operation = "UPDATED"

\* C18: the DeletedRecords of the cascade data stand in the order of the
\* track_delete calls: when every call of the first transaction was a
\* track_delete of a key of its own, the key of the last call is listed last.
C18_DeletedInEmissionOrder ==
    [][(/\ EndTransaction
        /\ ret'.kind = "cascade_data"
        /\ ntx = 1
        /\ call.op = "DELETED"
        /\ ncalls = Cardinality(deleted_entities))
       => LET deleted == ret'.data.deleted IN
          /\ Len(deleted) = ncalls
          /\ deleted[Len(deleted)] = [typename |-> call.key[1], id |-> call.key[2]]]_vars

\* C19: metadata.depth of the cascade data is the depth the traversal
\* reached: 1 when one call recorded its root and one direct neighbour, 0
\* when one call recorded at most its root.
C19_DepthReported ==
    [][(/\ EndTransaction
        /\ ret'.kind = "cascade_data"
        /\ ntx = 1
        /\ ncalls = 1
        /\ call.op \in {"CREATED", "UPDATED"})
       => (/\ Len(updated_entities) = 2 => ret'.data.metadata.depth = 1
           /\ Len(updated_entities) <= 1 => ret'.data.metadata.depth = 0)]_vars

\* C20: a track_delete of key k puts k into deleted and takes it out of
\* updated, so that the cascade data lists k under deleted only.
C20_DeleteRemovesUpdate ==
    /\ [](/\ in_transaction
          /\ call.op = "DELETED"
          => (/\ call.key \in deleted_entities
              /\ call.key \notin DictKeys(updated_entities)))
    /\ [][(EndTransaction /\ in_transaction /\ call.op = "DELETED")
          => (/\ \E i \in DOMAIN ret'.data.deleted :
                    ret'.data.deleted[i] = [typename |-> call.key[1],
                                            id |-> call.key[2]]
              /\ \A i \in DOMAIN ret'.data.updated :
                    <<ret'.data.updated[i].typename, ret'.data.updated[i].id>>
                        # call.key)]_vars

\* the key of the last track_delete had been recorded by an earlier call
C20_Witness ==
    /\ in_transaction
    /\ call.op = "DELETED"
    /\ call.key \in visited_entities
    /\ call.key \in deleted_entities
    /\ call.key \notin DictKeys(updated_entities)
    /\ updated_entities # <<>>

(***************************************************************************)
(* Properties of the merge of calls on one key and of the depth bound      *)
(***************************************************************************)

\* C21: a key recorded as CREATED keeps the operation CREATED for as long as
\* it stays in updated_entities during the transaction, whatever update of
\* it is tracked later, by a call or by a traversal that reaches it.
C21_CreatedWinsOverUpdated ==
    [][\A i \in DOMAIN updated_entities :
          (/\ updated_entities[i].operation = "CREATED"
           /\ transaction_id' = transaction_id
           /\ updated_entities[i].key \in DictKeys(updated_entities'))
          => DictGet(updated_entities', updated_entities[i].key).operation
                 = "CREATED"]_vars

\* a track_update has returned for a key that an earlier call recorded as
\* CREATED
C21_Witness ==
    /\ Idle
    /\ in_transaction
    /\ ncalls = 2
    /\ call.op = "UPDATED"
    /\ call.key \in DictKeys(updated_entities)
    /\ DictGet(updated_entities, call.key).operation = "CREATED"

\* C22: once a create or an update of an entity has been tracked, the
\* snapshot stored under its key, if the key is in updated_entities, is that
\* entity, also when the key had been recorded before with another object.
C22_LastWriteWins ==
    (/\ in_transaction
     /\ call.op \in {"CREATED", "UPDATED"}
     /\ call.key \in DictKeys(updated_entities))
    => DictGet(updated_entities, call.key).entity = call.entity

\* C23: what the only tracking call of a transaction records lies within
\* max_depth hops of its root, and is at most the root when max_depth is 0
\* or relationship tracking is off.
C23_NothingBeyondMaxDepth ==
    (/\ in_transaction
     /\ ncalls = 1
     /\ call.op \in {"CREATED", "UPDATED"})
    => (/\ DictKeys(updated_entities)
              \subseteq {KeyOf(o) : o \in Within({call.entity}, max_depth)}
        /\ (max_depth = 0 \/ ~enable_relationship_tracking)
              => DictKeys(updated_entities) \subseteq {call.key})

\* a call has returned that recorded a neighbour and left out an entity two
\* hops from its root
C23_Witness ==
    /\ Idle
    /\ in_transaction
    /\ ncalls = 1
    /\ call.op \in {"CREATED", "UPDATED"}
    /\ max_depth = 1
    /\ Len(updated_entities) >= 2
    /\ \E o \in Within({call.entity}, 2) : KeyOf(o) \notin DictKeys(updated_entities)

(***************************************************************************)
(* Properties of the builder and of the planner                            *)
(***************************************************************************)

\* C24: when build_response, build_error_response or
\* build_streaming_response returns a response for a transaction in
\* progress, the tracker is left with no transaction in progress and with
\* empty updated, deleted and visited collections.
C24_BuilderConsumesLog ==
    [][(/\ in_transaction
        /\ ret'.kind = "response"
        /\ call'.op \in {"build_response", "build_error_response",
                         "build_streaming_response"})
       => (/\ ~in_transaction'
           /\ updated_entities' = <<>>
           /\ deleted_entities' = {}
           /\ visited_entities' = {})]_vars

\* C25: the size estimate of the lists of every response of build_response,
\* (len(updated) + len(deleted)) * 1024 + len(invalidations) * 512 + 1024
\* bytes, is at most max_response_size_mb MiB (both sides in units of 8
\* thousandths of a byte).
C25_SizeBoundRespected ==
    (ret.kind = "response" /\ call.op = "build_response")
    => ((Len(ret.cascade.updated) + Len(ret.cascade.deleted)) * 1024
            + Len(ret.cascade.invalidations) * 512 + 1024) * 125
       <= call.builder.max_response_size_mmb * 131072

\* the lists of a direct call of _apply_size_limits after the count caps
AfterCountCaps ==
    [updated       |-> Take(arg.cascade_data.updated,
                            arg.builder.max_updated_entities),
     deleted       |-> Take(arg.cascade_data.deleted,
                            arg.builder.max_deleted_entities),
     invalidations |-> Take(arg.cascade_data.invalidations,
                            arg.builder.max_invalidations)]

\* the size estimate of the lists after the count caps exceeds
\* max_response_size_mb MiB (both sides in units of 8 thousandths of a byte)
EstimateTooLarge ==
    ((Len(AfterCountCaps.updated) + Len(AfterCountCaps.deleted)) * 1024
         + Len(AfterCountCaps.invalidations) * 512 + 1024) * 125
    > arg.builder.max_response_size_mmb * 131072

\* C26: _apply_size_limits cuts updated and deleted to their first 50
\* entries and sets the size flag when, after the count caps, the estimate
\* exceeds the bound and updated and deleted together hold more than 100
\* entries; otherwise it returns the lists of the count caps and no size flag.
C26_SizeCut ==
    ret.kind = "limited"
    => IF EstimateTooLarge
          /\ Len(AfterCountCaps.updated) + Len(AfterCountCaps.deleted) > 100
       THEN /\ ret.cascade.updated = Take(AfterCountCaps.updated, 50)
            /\ ret.cascade.deleted = Take(AfterCountCaps.deleted, 50)
            /\ "truncated_size" \in DOMAIN ret.cascade.metadata
       ELSE /\ ret.cascade.updated = AfterCountCaps.updated
            /\ ret.cascade.deleted = AfterCountCaps.deleted
            /\ "truncated_size" \notin DOMAIN ret.cascade.metadata

\* the size cut has shortened a list of 51 entries that the count caps had
\* left whole
C26_Witness ==
    /\ ret.kind = "limited"
    /\ "truncated_size" \in DOMAIN ret.cascade.metadata
    /\ "truncated_updated" \notin DOMAIN ret.cascade.metadata
    /\ Len(arg.cascade_data.updated) = 51
    /\ Len(ret.cascade.updated) = 50
    /\ Len(ret.cascade.deleted) = 50

\* C27: compute_invalidations returns normally for every primary result,
\* and its hints hold the primary-result hint get+T / {id} / REFETCH / EXACT
\* exactly when the primary result is an entity (seen through build_response
\* on a successful mutation, where no cap has cut the hints).
C27_PrimaryHintIffEntity ==
    (/\ call.op = "build_response"
     /\ call.builder.invalidator.present
     /\ call.success)
    => (/\ ret # [kind |-> "raised", exc |-> "ValueError"]
        /\ (/\ ret.kind = "response"
            /\ Len(ret.cascade.invalidations) < call.builder.max_invalidations
            /\ Len(ret.cascade.invalidations)
                   < call.builder.invalidator.max_invalidations)
           => LET hints == ret.cascade.invalidations
                  hinted == \E i \in DOMAIN hints : "arguments" \in DOMAIN hints[i]
              IN IF HasId(call.primary_result)
                 THEN \E i \in DOMAIN hints :
                          hints[i] = [queryName |-> "get" \o TypeOf(call.primary_result),
                                      arguments |-> [id |-> IdOf(call.primary_result)],
                                      strategy  |-> "REFETCH",
                                      scope     |-> "EXACT"]
                 ELSE ~hinted)

\* C28: the hints of a successful build_response that no cap has cut hold,
\* for every typename T among the updated and deleted records, list+T+s /
\* INVALIDATE / PREFIX, get+T / REFETCH / EXACT and search+T+* / INVALIDATE /
\* PATTERN; for one CREATED record and no primary result they are exactly
\* get+T, list+T+s, search+T+* in this order.
C28_TypeDefaults ==
    (/\ call.op = "build_response"
     /\ ret.kind = "response"
     /\ call.builder.invalidator.present
     /\ call.success
     /\ "truncated_updated" \notin DOMAIN ret.cascade.metadata
     /\ "truncated_deleted" \notin DOMAIN ret.cascade.metadata
     /\ Len(ret.cascade.invalidations) < call.builder.max_invalidations
     /\ Len(ret.cascade.invalidations) < call.builder.invalidator.max_invalidations)
    => LET hints == ret.cascade.invalidations
           listT(T) == [queryName |-> "list" \o T \o "s",
                        strategy |-> "INVALIDATE", scope |-> "PREFIX"]
           getT(T) == [queryName |-> "get" \o T,
                       strategy |-> "REFETCH", scope |-> "EXACT"]
           searchT(T) == [queryPattern |-> "search" \o T \o "*",
                          strategy |-> "INVALIDATE", scope |-> "PATTERN"]
       IN /\ \A T \in AffectedTypes(ret.cascade.updated, ret.cascade.deleted) :
                \A h \in {listT(T), getT(T), searchT(T)} :
                    \E i \in DOMAIN hints : hints[i] = h
          /\ (/\ Len(ret.cascade.updated) = 1
              /\ ret.cascade.updated[1].operation = "CREATED"
              /\ ret.cascade.deleted = <<>>
              /\ call.primary_result = None)
             => LET T == ret.cascade.updated[1].typename IN
                hints = <<getT(T), listT(T), searchT(T)>>

\* the response to the creation of one entity without relationships, no
\* primary result
C28_Witness ==
    /\ call.op = "build_response"
    /\ ret.kind = "response"
    /\ call.builder.invalidator.present
    /\ call.success
    /\ call.primary_result = None
    /\ Len(ret.cascade.updated) = 1
    /\ ret.cascade.updated[1].operation = "CREATED"
    /\ ret.cascade.deleted = <<>>
    /\ Len(ret.cascade.invalidations) = 3
    /\ call.builder.max_invalidations > 3

\* the arguments of a hint as JSON compares them: a missing entry and None
\* are both null
JsonArguments(inv) ==
    IF "arguments" \in DOMAIN inv THEN inv.arguments ELSE NoArguments

\* queryName, queryPattern, strategy, scope and arguments are all equal
SameHint(a, b) ==
    /\ Get(a, "queryName") = Get(b, "queryName")
    /\ Get(a, "queryPattern") = Get(b, "queryPattern")
    /\ Get(a, "strategy") = Get(b, "strategy")
    /\ Get(a, "scope") = Get(b, "scope")
    /\ JsonArguments(a) = JsonArguments(b)

\* the hints of x that no earlier hint of x equals, in the order of x
RECURSIVE FirstOccurrences(_)
FirstOccurrences(x) ==
    IF x = <<>> THEN <<>>
    ELSE LET front == SubSeq(x, 1, Len(x) - 1)
             last  == x[Len(x)]
         IN IF \E j \in DOMAIN front : SameHint(front[j], last)
            THEN FirstOccurrences(front)
            ELSE Append(FirstOccurrences(front), last)

\* C29: deduplicate_invalidations returns, in their order, the hints that
\* no earlier hint of the list equals in queryName, queryPattern, strategy,
\* scope and arguments, and deduplicating its result changes nothing.
C29_DedupeFirstOccurrences ==
    (ret.kind = "hints" /\ arg.fn = "deduplicate_invalidations")
    => (/\ ret.hints = FirstOccurrences(arg.invalidations)
        /\ DeduplicateInvalidations(ret.hints) = ret.hints)

\* hints stand in descending order of their scope priority
Descending(hints) ==
    \A i, j \in DOMAIN hints :
        i < j => ScopePriority(hints[i]) >= ScopePriority(hints[j])

\* C30: the hints returned by prioritize_invalidations and by
\* _optimize_invalidations stand in descending order of scope priority, and
\* prioritize_invalidations returns the hints of each priority in the order
\* they had in its argument.
C30_PriorityOrder ==
    /\ (ret.kind = "hints"
        /\ arg.fn \in {"prioritize_invalidations", "_optimize_invalidations"})
       => Descending(ret.hints)
    /\ (ret.kind = "hints" /\ arg.fn = "prioritize_invalidations")
       => \A p \in 0..4 :
             SelectSeq(ret.hints, LAMBDA x : ScopePriority(x) = p)
                 = SelectSeq(arg.invalidations, LAMBDA x : ScopePriority(x) = p)

\* a sort has moved an EXACT hint in front of the hints before it and kept
\* two PREFIX hints in their order
C30_Witness ==
    /\ ret.kind = "hints"
    /\ arg.fn = "prioritize_invalidations"
    /\ Len(ret.hints) = 3
    /\ ret.hints # arg.invalidations
    /\ ScopePriority(ret.hints[1]) = 4
    /\ ScopePriority(ret.hints[2]) = 3
    /\ ScopePriority(ret.hints[3]) = 3
    /\ ret.hints[2] # ret.hints[3]

\* C31: the updated list and the invalidations list of a response are
\* determined by the tracking calls made: whatever order the planner meets
\* the affected types in, build_response returns the same two lists.
C31_Determinism ==
    [][(in_transaction /\ Idle /\ call'.op = "build_response"
        /\ ret'.kind = "response")
       => \A order \in Orders(deleted_entities) :
             LET data == CascadeData(order) IN
             \A type_order \in Orders(AffectedTypes(data.updated, data.deleted)) :
                LET other == BuildResponseFrom(call'.builder, data,
                                 call'.primary_result, call'.success, <<>>,
                                 type_order)
                IN (call'.builder.invalidator.present /\ call'.success)
                   => /\ other.cascade.updated = ret'.cascade.updated
                      /\ other.cascade.invalidations = ret'.cascade.invalidations]_vars

\* C32: the record reported for a tracked entity holds the field values the
\* entity had when it was tracked: a later write to the object changes
\* nothing in the updated list that the tracker returns.
C32_SnapshotAtTrackingTime ==
    [][revision' # revision => BuildUpdatedEntities' = BuildUpdatedEntities]_vars

\* C33: affected_count in the cascade data of end_transaction and of
\* build_response is the number of records in the returned updated list
\* plus the number in the returned deleted list, where the builder has cut
\* nothing.
C33_AffectedCount ==
    /\ ret.kind = "cascade_data"
          => ret.data.metadata.affected_count
                 = Len(ret.data.updated) + Len(ret.data.deleted)
    /\ (/\ ret.kind = "response"
        /\ call.op = "build_response"
        /\ "affected_count" \in DOMAIN ret.cascade.metadata
        /\ "truncated_updated" \notin DOMAIN ret.cascade.metadata
        /\ "truncated_deleted" \notin DOMAIN ret.cascade.metadata
        /\ "truncated_size" \notin DOMAIN ret.cascade.metadata)
          => ret.cascade.metadata.affected_count
                 = Len(ret.cascade.updated) + Len(ret.cascade.deleted)

\* C34: a tracking call that repeats the call made just before it in the
\* same transaction (same operation, same entity or key) returns at once
\* and leaves updated, deleted, visited and the depth as they were.
C34_DoubleTrackingSafe ==
    [][(Idle /\ in_transaction /\ ncalls' = ncalls + 1 /\ call' = call)
       => (/\ updated_entities' = updated_entities
           /\ deleted_entities' = deleted_entities
           /\ visited_entities' = visited_entities
           /\ current_depth' = current_depth
           /\ stack' = <<>>)]_vars

\* track_create of the same entity has been called twice in the first
\* transaction and the log holds its one CREATED record
C34_Witness ==
    /\ in_transaction
    /\ ntx = 1
    /\ ncalls = 2
    /\ \A o \in Objects : heap[o] = <<>> /\ shape[o] = "entity"
    /\ call.op = "CREATED"
    /\ call.entity = "a1"
    /\ deleted_entities = {}
    /\ Len(updated_entities) = 1
    /\ updated_entities[1].entity = "a1"
    /\ updated_entities[1].operation = "CREATED"
    /\ \A k \in visited_entities : k = KeyOf("a1")

\* C35: while a transaction is open, every key in visited is a key of
\* updated or a member of deleted, or its type is excluded.
C35_VisitedIsRecorded ==
    in_transaction
    => \A k \in visited_entities :
          \/ k \in DictKeys(updated_entities)
          \/ k \in deleted_entities
          \/ k[1] \in exclude_types

\* a visited key that was deleted after it was recorded, next to a visited
\* key that is still in updated
C35_Witness ==
    /\ in_transaction
    /\ Idle
    /\ \E k \in visited_entities :
          k \in deleted_entities /\ k \notin DictKeys(updated_entities)
    /\ \E k \in visited_entities :
          k \notin deleted_entities /\ k \in DictKeys(updated_entities)

\* C36: when two intercepted mutations run interleaved, each ends with a
\* response that holds exactly the change its own resolver tracked, and
\* neither fails to begin.
C36_NoInterference ==
    mw.pc = "pair"
    => \A i \in 1..2 :
          (mw.tasks[i].pc = "done" /\ HasCascadeDirective(mw.tasks[i].field_def))
          => (/\ mw.tasks[i].result.kind = "response"
              /\ {<<u.typename, u.id>> :
                     u \in {mw.tasks[i].result.cascade.updated[n] :
                               n \in DOMAIN mw.tasks[i].result.cascade.updated}}
                 = {KeyOf(mw.tasks[i].resolver.tracks)})

\* C37: track_create or track_update of an entity without an id raises
\* and leaves updated, deleted, visited and current_depth as they were; an
\* id-less related entity met during traversal makes the call raise with
\* current_depth back at the value it had before the call.
C37_IdlessEntityRejected ==
    /\ [][(/\ Idle /\ in_transaction /\ ncalls' = ncalls + 1
           /\ call'.op \in {"CREATED", "UPDATED"}
           /\ shape[call'.entity] = "no_id")
          => (/\ ret' = ValueError
              /\ updated_entities' = updated_entities
              /\ deleted_entities' = deleted_entities
              /\ visited_entities' = visited_entities
              /\ current_depth' = current_depth
              /\ stack' = <<>>)]_vars
    /\ [][(/\ stack # <<>>
           /\ stack[Len(stack)] # <<>>
           /\ shape[Head(stack[Len(stack)])] = "no_id")
          => (/\ ret' = ValueError
              /\ stack' = <<>>
              /\ current_depth' = 0)]_vars
    /\ [](Idle => current_depth = 0)

\* a traversal has met an id-less entity: the call has raised, the entities
\* recorded before it stay, and the depth is 0 again
C37_Witness ==
    /\ in_transaction
    /\ ret = ValueError
    /\ Idle
    /\ current_depth = 0
    /\ call.op \in {"CREATED", "UPDATED"}
    /\ shape[call.entity] = "entity"
    /\ Len(updated_entities) = 2

\* the number of hints of the given scope priorities in a list
CountIn(hints, priorities) ==
    Cardinality({i \in DOMAIN hints : ScopePriority(hints[i]) \in priorities})

\* C38: the list that _optimize_invalidations returns under a cap of
\* max_invalidations is the first max_invalidations hints of the
\* deduplicated list in descending scope priority: it has no more hints of
\* any priority than the deduplicated list, and whenever it holds a hint of
\* a priority below p it holds every deduplicated hint of priority p or
\* above, so no dropped hint outranks a retained one.
C38_CapDropsLowestPriority ==
    (ret.kind = "hints" /\ arg.fn = "_optimize_invalidations")
    => LET unique == DeduplicateInvalidations(arg.invalidations)
           kept   == ret.hints
       IN /\ Len(kept) = IF Len(unique) < arg.max_invalidations
                         THEN Len(unique) ELSE arg.max_invalidations
          /\ \A i \in DOMAIN kept : \E j \in DOMAIN unique : kept[i] = unique[j]
          /\ \A p \in 0..4 : CountIn(kept, {p}) <= CountIn(unique, {p})
          /\ \A p \in 1..4 :
                CountIn(kept, 0..(p - 1)) > 0
                => CountIn(kept, p..4) = CountIn(unique, p..4)
          /\ Descending(kept)

\* three different hints came in with the PATTERN one first; under a cap
\* of 2 the EXACT and the PREFIX one are kept and the PATTERN one is dropped
C38_Witness ==
    /\ ret.kind = "hints"
    /\ arg.fn = "_optimize_invalidations"
    /\ arg.max_invalidations = 2
    /\ Len(arg.invalidations) = 3
    /\ ScopePriority(arg.invalidations[1]) = 2
    /\ Len(ret.hints) = 2
    /\ ScopePriority(ret.hints[1]) = 4
    /\ ScopePriority(ret.hints[2]) = 3

\* C39: every start_transaction that succeeds leaves updated, deleted and
\* visited empty and current_depth 0, however the transaction before it
\* ended, so a transaction in which no tracking call was made yet holds no
\* change.
C39_NoLeakBetweenTransactions ==
    /\ [][ntx' = ntx + 1
          => (/\ in_transaction'
              /\ updated_entities' = <<>>
              /\ deleted_entities' = {}
              /\ visited_entities' = {}
              /\ current_depth' = 0)]_vars
    /\ []((in_transaction /\ call = NoCall)
          => (/\ updated_entities = <<>>
              /\ deleted_entities = {}
              /\ visited_entities = {}))

\* the second transaction of a tracker has just started, after tracking
\* calls were made, and its log is empty
C39_Witness ==
    /\ ntx = 2
    /\ in_transaction
    /\ ncalls >= 1
    /\ call = NoCall
    /\ ret = [kind |-> "transaction_id", id |-> 2]
    /\ updated_entities = <<>>
    /\ deleted_entities = {}
    /\ visited_entities = {}
    /\ current_depth = 0

\* the @cascade directive of the field gives no value for the argument
Omits(field_def, argument) ==
    \A i \in DOMAIN field_def.directives :
        field_def.directives[i].name = "cascade"
        => argument \notin DOMAIN field_def.directives[i].arguments

\* C40: the tracker that the middleware has prepared for a mutation keeps
\* the max_depth of the tracker factory when the @cascade directive gives
\* no maxDepth, and the factory's exclude_types when it gives no
\* excludeTypes.
C40_OmittedArgumentsKeepFactorySettings ==
    (mw.pc \in {"enter", "done"} /\ HasCascadeDirective(mw.field_def))
    => (/\ Omits(mw.field_def, "maxDepth")
              => max_depth = GetOr(mw.config, "max_depth", 3)
        /\ Omits(mw.field_def, "excludeTypes")
              => exclude_types = GetOr(mw.config, "exclude_types", {}))

====
